---- MODULE Spec2Model ----
(***************************************************************************)
(* Visa Genius X: the deterministic validation-and-scoring backend         *)
(* (src/server.mjs): analyzeDocument, computeScore, fundsRisk, docsRisk    *)
(* and the POST /api/analyze handler.                                      *)
(*                                                                         *)
(* JavaScript values are modelled as follows.                              *)
(*   - a string the code takes apart (a file name, the funds field) is a   *)
(*     tuple of one-character strings, <<"a", ".", "p", "d", "f">>;        *)
(*   - a string the code only compares with === is a TLA+ string;          *)
(*   - a profile field is a tagged record: [t |-> "undefined"],            *)
(*     [t |-> "string", s |-> ...] or [t |-> "number", n |-> ...];         *)
(*   - a JavaScript number that may be NaN is [nan |-> TRUE] or            *)
(*     [nan |-> FALSE, n |-> i]; every comparison with NaN is false.       *)
(* TLC's integers are 32 bits wide, so "very large" funds stay below 2^31. *)
(***************************************************************************)
EXTENDS Integers, Sequences, FiniteSets, TLC

VARIABLES
    file, type, docRes,             \* one application of analyzeDocument
    profile, docResults, scoreInfo, \* one application of computeScore
    req, res, uploads, served,      \* the POST /api/analyze handler
    stage, result, pending, started \* the frontend App (src/src/App.jsx)

vars == <<file, type, docRes, profile, docResults, scoreInfo,
          req, res, uploads, served, stage, result, pending, started>>

docVars     == <<file, type, docRes>>
scoreVars   == <<profile, docResults, scoreInfo>>
handlerVars == <<req, res, uploads, served>>
appVars     == <<stage, result, pending, started>>

\* A value that is not there yet: a function not yet applied, no request.
Nothing == [t |-> "nothing"]

Null == [t |-> "null"]

\* The App before any interaction: useState('landing'), useState(null).
AppInit ==
    stage = "landing" /\ result = Null /\ pending = {} /\ started = 0

-----------------------------------------------------------------------------
(* Characters and strings                                                  *)

UpperChars == <<"A","B","C","D","E","F","G","H","I","J","K","L","M",
                "N","O","P","Q","R","S","T","U","V","W","X","Y","Z">>
LowerChars == <<"a","b","c","d","e","f","g","h","i","j","k","l","m",
                "n","o","p","q","r","s","t","u","v","w","x","y","z">>
DigitChars == <<"0","1","2","3","4","5","6","7","8","9">>

\* String.prototype.toLowerCase on one character.
toLowerChar(c) ==
    IF \E i \in 1..26 : UpperChars[i] = c
    THEN LowerChars[CHOOSE i \in 1..26 : UpperChars[i] = c]
    ELSE c

toLowerCase_missing(s) == s

\* String.prototype.toLowerCase.
toLowerCase(s) == [i \in 1..Len(s) |-> toLowerChar(s[i])]

\* 1-based index of the last "." of s, 0 when there is none.
LastDot(s) ==
    IF \E i \in 1..Len(s) : s[i] = "."
    THEN CHOOSE i \in 1..Len(s) :
            s[i] = "." /\ \A j \in (i+1)..Len(s) : s[j] # "."
    ELSE 0

\* path.extname for a name without a directory part: the text from the last
\* "." on; empty when there is no ".", when the last "." is the first
\* character (a dotfile), and for "..".
extname(s) ==
    LET d == LastDot(s) IN
    IF d = 0 \/ d = 1 \/ s = <<".", ".">>
    THEN <<>>
    ELSE SubSeq(s, d, Len(s))

-----------------------------------------------------------------------------
(* analyzeDocument (src/server.mjs 35-85)                                  *)

allowedExt == { <<".","p","d","f">>, <<".","j","p","g">>,
                <<".","j","p","e","g">>, <<".","p","n","g">> }

sizeKBBelow_inclusive(size, k) == size <= k * 1024

\* sizeKB < k where sizeKB = file.size / 1024: the division by a power of two
\* is exact in binary floating point, so the comparison is one of integers.
sizeKBBelow(size, k) == size < k * 1024

\* The rules in the wrong order: the size rule before the extension rule.
analyzeDocument_sizeFirst(f, ty) ==
    LET ext == toLowerCase(extname(f.originalname)) IN
    IF sizeKBBelow(f.size, 30)
    THEN [ok |-> FALSE,
          note |-> <<"File looks too small, may be corrupted or incomplete.">>,
          scoreImpact |-> -15]
    ELSE IF ext \notin allowedExt
    THEN [ok |-> FALSE,
          note |-> <<"Unsupported file type (", ext,
                     "). Please upload PDF or image.">>,
          scoreImpact |-> -20]
    ELSE [ok |-> TRUE,
          note |-> <<"Document uploaded successfully.">>,
          scoreImpact |-> IF ty = "bank" THEN 20
                          ELSE IF ty \in {"passport", "offer"} THEN 15 ELSE 5]

analyzeDocument(f, ty) ==
    LET ext == toLowerCase(extname(f.originalname)) IN
    IF ext \notin allowedExt
    THEN [ok |-> FALSE,
          note |-> <<"Unsupported file type (", ext,
                     "). Please upload PDF or image.">>,
          scoreImpact |-> -20]
    ELSE IF sizeKBBelow(f.size, 30)
    THEN [ok |-> FALSE,
          note |-> <<"File looks too small, may be corrupted or incomplete.">>,
          scoreImpact |-> -15]
    ELSE IF ty = "passport"
    THEN [ok |-> TRUE,
          note |-> <<"Passport file looks valid (size & type OK).">>,
          scoreImpact |-> 15]
    ELSE IF ty = "bank"
    THEN [ok |-> TRUE,
          note |-> <<"Bank statement file looks valid. For demo we assume balance & history OK.">>,
          scoreImpact |-> 20]
    ELSE IF ty = "offer"
    THEN [ok |-> TRUE,
          note |-> <<"Offer letter file looks valid. In production we would verify institution & dates.">>,
          scoreImpact |-> 15]
    ELSE [ok |-> TRUE,
          note |-> <<"Document uploaded successfully.">>,
          scoreImpact |-> 5]

\* File names the document checks are exercised on.
DocNames == {
    <<"i","d",".","p","d","f">>,            \* id.pdf
    <<"I","D",".","P","D","F">>,            \* ID.PDF
    <<"i","d",".","P","d","f">>,            \* id.Pdf
    <<"i","d",".","j","p","g">>,            \* id.jpg
    <<"i","d",".","J","P","E","G">>,        \* id.JPEG
    <<"i","d",".","j","p","e","g">>,        \* id.jpeg
    <<"i","d",".","p","n","g">>,            \* id.png
    <<"i","d",".","d","o","c","x">>,        \* id.docx
    <<"i","d",".","D","O","C","X">>,        \* id.DOCX
    <<"i","d",".","p","d","f",".","e","x","e">>,  \* id.pdf.exe
    <<"i","d",".","e","x","e",".","p","d","f">>,  \* id.exe.pdf
    <<"p","d","f">>,                        \* pdf (no extension)
    <<".","p","d","f">>,                    \* .pdf (a dotfile)
    <<"i","d",".">>,                        \* id.
    <<".",".">> }                           \* ..

\* File sizes in bytes, around the 30 KB limit and up to multer's 10 MB.
DocSizes == {0, 1, 30719, 30720, 30721, 10485760}

DocTypes == {"passport", "bank", "offer", "other"}

InitDoc ==
    /\ file \in [originalname : DocNames, size : DocSizes]
    /\ type \in DocTypes
    /\ docRes = Nothing
    /\ profile = Nothing /\ docResults = <<>> /\ scoreInfo = Nothing
    /\ req = Nothing /\ res = Nothing /\ uploads = {} /\ served = 0
    /\ AppInit

CallAnalyzeDocument ==
    /\ docRes = Nothing
    /\ docRes' = analyzeDocument(file, type)
    /\ UNCHANGED <<file, type, scoreVars, handlerVars, appVars>>

NextDoc == CallAnalyzeDocument

SpecDoc == InitDoc /\ [][NextDoc]_vars

-----------------------------------------------------------------------------
(* JavaScript values of the profile                                        *)

Undefined == [t |-> "undefined"]
Str(s)    == [t |-> "string", s |-> s]
Num(n)    == [t |-> "number", n |-> n]
NaN       == [nan |-> TRUE]
Finite(n) == [nan |-> FALSE, n |-> n]

\* v === 'literal' for a field the code only compares.
StrictEq(v, lit) == v.t = "string" /\ v.s = lit

\* !v for a field whose strings are character tuples: undefined, '' and 0.
Falsy(v) ==
    \/ v.t = "undefined"
    \/ v.t = "string" /\ v.s = <<>>
    \/ v.t = "number" /\ v.n = 0

\* profile.key: a property read of the parsed profile.  A primitive has no
\* such property; reading a property of null throws and is guarded by the
\* callers.
Field(p, key) == IF p.t = "object" THEN p[key] ELSE Undefined

DigitValue(c) == (CHOOSE i \in 1..10 : DigitChars[i] = c) - 1
IsDigit(c) == \E i \in 1..10 : DigitChars[i] = c
IsWhiteSpace(c) == c \in {" ", "\t", "\n"}

RECURSIVE DecimalDigits(_)
\* The decimal digits of a natural number.
DecimalDigits(n) ==
    IF n < 10 THEN <<DigitChars[n + 1]>>
    ELSE Append(DecimalDigits(n \div 10), DigitChars[(n % 10) + 1])

\* ToString of an integer-valued number below 10^21.
NumberToString(n) ==
    IF n < 0 THEN <<"-">> \o DecimalDigits(-n) ELSE DecimalDigits(n)

RECURSIVE SkipWhiteSpace(_)
SkipWhiteSpace(s) ==
    IF s # <<>> /\ IsWhiteSpace(Head(s)) THEN SkipWhiteSpace(Tail(s)) ELSE s

RECURSIVE DigitPrefixValue(_, _)
\* The value of the longest prefix of decimal digits of s, after acc.
DigitPrefixValue(s, acc) ==
    IF s # <<>> /\ IsDigit(Head(s))
    THEN DigitPrefixValue(Tail(s), acc * 10 + DigitValue(Head(s)))
    ELSE acc

\* parseInt(string, 10): leading white space is skipped, then an optional
\* sign, then the longest run of decimal digits; NaN when that run is empty.
parseInt(v) ==
    LET str  == IF v.t = "number" THEN NumberToString(v.n) ELSE v.s
        s    == SkipWhiteSpace(str)
        neg  == s # <<>> /\ Head(s) = "-"
        body == IF s # <<>> /\ Head(s) \in {"+", "-"} THEN Tail(s) ELSE s
    IN  IF body = <<>> \/ ~IsDigit(Head(body))
        THEN NaN
        ELSE Finite(IF neg THEN -DigitPrefixValue(body, 0)
                           ELSE DigitPrefixValue(body, 0))

\* x > k and x < k for a number that may be NaN.
Greater(x, k) == ~x.nan /\ x.n > k
Less(x, k)    == ~x.nan /\ x.n < k

-----------------------------------------------------------------------------
(* computeScore (src/server.mjs 88-133)                                    *)

RECURSIVE AddImpacts_positiveOnly(_, _)
\* Only the impacts of the documents that are ok are added.
AddImpacts_positiveOnly(base, docs) ==
    IF docs = <<>> THEN base
    ELSE AddImpacts_positiveOnly(
            IF Head(docs).ok THEN base + Head(docs).scoreImpact ELSE base,
            Tail(docs))

RECURSIVE AddImpacts(_, _)
\* docResults.forEach(d => base += d.scoreImpact)
AddImpacts(base, docs) ==
    IF docs = <<>> THEN base
    ELSE AddImpacts(base + Head(docs).scoreImpact, Tail(docs))

Max(a, b) == IF a >= b THEN a ELSE b
Min(a, b) == IF a <= b THEN a ELSE b

clamp_none(base) == base

\* Math.max(0, Math.min(100, base))
clamp(base) == Max(0, Min(100, base))

plainOf_offByOne(base) ==
    IF base > 75 THEN "Highly likely"
    ELSE IF base > 60 THEN "Likely"
    ELSE IF base > 45 THEN "Borderline"
    ELSE "Unlikely"

\* The band of a clamped score.
plainOf(base) ==
    IF base >= 75 THEN "Highly likely"
    ELSE IF base >= 60 THEN "Likely"
    ELSE IF base >= 45 THEN "Borderline"
    ELSE "Unlikely"

\* profile.funds || '0', parsed.
fundsOf(p) ==
    LET f == Field(p, "funds") IN
    parseInt(IF Falsy(f) THEN Str(<<"0">>) ELSE f)

isAdvanced(p) ==
    StrictEq(Field(p, "education"), "Masters")
        \/ StrictEq(Field(p, "education"), "PhD")

\* The reasons, in the order of the pushes.  The source's en dashes are
\* written as hyphens.
reasonsOf_docsFirst(p, docs) ==
    LET funds == fundsOf(p) IN
    (IF \E i \in 1..Len(docs) : ~docs[i].ok
     THEN <<"One or more documents look weak or invalid">> ELSE <<>>)
    \o (IF Greater(funds, 150000) THEN <<"Strong financial capacity">>
        ELSE IF Less(funds, 50000)
        THEN <<"Low declared funds - risk on finances">>
        ELSE <<"Funds appear moderate for stay">>)
    \o (IF isAdvanced(p)
        THEN <<"Advanced education supports purpose">> ELSE <<>>)
    \o (IF StrictEq(Field(p, "past_visa"), "3+")
        THEN <<"Good travel history - positive signal">> ELSE <<>>)
    \o (IF StrictEq(Field(p, "past_visa"), "None")
        THEN <<"No prior visa history - neutral or slightly risky">>
        ELSE <<>>)

reasonsOf(p, docs) ==
    LET funds == fundsOf(p) IN
    (IF Greater(funds, 150000) THEN <<"Strong financial capacity">>
     ELSE IF Less(funds, 50000)
     THEN <<"Low declared funds - risk on finances">>
     ELSE <<"Funds appear moderate for stay">>)
    \o (IF isAdvanced(p)
        THEN <<"Advanced education supports purpose">> ELSE <<>>)
    \o (IF StrictEq(Field(p, "past_visa"), "3+")
        THEN <<"Good travel history - positive signal">> ELSE <<>>)
    \o (IF StrictEq(Field(p, "past_visa"), "None")
        THEN <<"No prior visa history - neutral or slightly risky">>
        ELSE <<>>)
    \o (IF \E i \in 1..Len(docs) : ~docs[i].ok
        THEN <<"One or more documents look weak or invalid">> ELSE <<>>)

\* The score before the clamp, with the travel adjustment forgotten.
rawScore_noTravel(p, docs) ==
    LET funds == fundsOf(p)
        b1 == AddImpacts(50, docs)
        b2 == IF Greater(funds, 150000) THEN b1 + 10
              ELSE IF Less(funds, 50000) THEN b1 - 10 ELSE b1
    IN  IF isAdvanced(p) THEN b2 + 5 ELSE b2

\* The score before the clamp (lines 89-106).
rawScore(p, docs) ==
    LET funds == fundsOf(p)
        b1 == AddImpacts(50, docs)
        b2 == IF Greater(funds, 150000) THEN b1 + 10
              ELSE IF Less(funds, 50000) THEN b1 - 10 ELSE b1
        b3 == IF isAdvanced(p) THEN b2 + 5 ELSE b2
        b4 == IF StrictEq(Field(p, "past_visa"), "3+") THEN b3 + 5 ELSE b3
    IN  IF StrictEq(Field(p, "past_visa"), "None") THEN b4 - 5 ELSE b4

\* computeScore for a profile that is not null.
computeScore(p, docs) ==
    LET base == clamp(rawScore(p, docs)) IN
    [score |-> base, plain |-> plainOf(base), reasons |-> reasonsOf(p, docs)]

\* The funds fields computeScore is exercised on.
FundsInputs == {
    Undefined,
    Num(0),
    Num(200000),
    Str(<<>>),                                      \* ''
    Str(<<"a","b","c">>),                           \* 'abc'
    Str(<<"4","9","9","9","9">>),                   \* '49999'
    Str(<<"5","0","0","0","0">>),                   \* '50000'
    Str(<<"1","5","0","0","0","0">>),               \* '150000'
    Str(<<"1","5","0","0","0","1">>),               \* '150001'
    Str(<<"-","7","0","0","0","0","0">>),           \* '-7000000'
    Str(<<" ","9","0","0","0","0","r","s">>),       \* ' 90000rs'
    Str(<<"9","9","9","9","9","9","9","9","9">>) }  \* '999999999'

EducationInputs == {Undefined, Str("Bachelors"), Str("Masters"), Str("PhD")}
PastVisaInputs  == {Undefined, Str("None"), Str("1-2"), Str("3+")}

\* A parsed profile object.
ProfileObject(fu, ed, pv, pu, na, dc) ==
    [t |-> "object", funds |-> fu, education |-> ed, past_visa |-> pv,
     purpose |-> pu, name |-> na, dest_country |-> dc]

ScoreProfiles ==
    { ProfileObject(fu, ed, pv, Undefined, Undefined, Undefined) :
        fu \in FundsInputs, ed \in EducationInputs, pv \in PastVisaInputs }

\* The longest list of document assessments computeScore is exercised on.
MaxDocs == 3

GoodPdf  == [originalname |-> <<"i","d",".","p","d","f">>, size |-> 30720]
SmallPdf == [originalname |-> <<"i","d",".","p","d","f">>, size |-> 30719]
Docx     == [originalname |-> <<"i","d",".","d","o","c","x">>, size |-> 30720]

\* The assessments analyzeDocument produces for these files.
Assessments ==
    { analyzeDocument(f, ty) : f \in {GoodPdf, SmallPdf, Docx},
                               ty \in {"passport", "bank"} }

AssessmentLists ==
    UNION { [1..n -> Assessments] : n \in 0..MaxDocs }

InitScore ==
    /\ profile \in ScoreProfiles
    /\ docResults \in AssessmentLists
    /\ scoreInfo = Nothing
    /\ file = Nothing /\ type = Nothing /\ docRes = Nothing
    /\ req = Nothing /\ res = Nothing /\ uploads = {} /\ served = 0
    /\ AppInit

CallComputeScore ==
    /\ scoreInfo = Nothing
    /\ scoreInfo' = computeScore(profile, docResults)
    /\ UNCHANGED <<profile, docResults, docVars, handlerVars, appVars>>

NextScore == CallComputeScore

SpecScore == InitScore /\ [][NextScore]_vars

-----------------------------------------------------------------------------
(* fundsRisk, docsRisk (src/server.mjs 219-230)                            *)

fundsRisk_strict(score) ==
    IF score > 80 THEN 20 ELSE IF score > 60 THEN 35 ELSE 60

fundsRisk(score) ==
    IF score >= 80 THEN 20 ELSE IF score >= 60 THEN 35 ELSE 60

\* The filter inverted: the documents that are ok are counted.
docsRisk_countsOk(docs) ==
    LET bad == Cardinality({i \in 1..Len(docs) : docs[i].ok}) IN
    IF bad = 0 THEN 25 ELSE IF bad = 1 THEN 50 ELSE 70

docsRisk(docs) ==
    LET bad == Cardinality({i \in 1..Len(docs) : ~docs[i].ok}) IN
    IF bad = 0 THEN 25 ELSE IF bad = 1 THEN 50 ELSE 70

-----------------------------------------------------------------------------
(* POST /api/analyze (src/server.mjs 136-216)                              *)

\* The profile field of the multipart body: not sent (or empty), text that
\* is not JSON, or the text of a JSON value.
AbsentPayload    == [t |-> "absent"]
MalformedPayload == [t |-> "malformed"]
JsonPayload(v)   == [t |-> "json", value |-> v]

EmptyObject ==
    [t |-> "object", funds |-> Undefined, education |-> Undefined,
     past_visa |-> Undefined, purpose |-> Undefined, name |-> Undefined,
     dest_country |-> Undefined]

\* A parse that falls back to '{}' instead of throwing.
JSONparse_lenient(payload) ==
    IF payload.t \in {"malformed", "absent"}
    THEN [threw |-> FALSE, value |-> EmptyObject]
    ELSE [threw |-> FALSE, value |-> payload.value]

\* JSON.parse(req.body.profile || '{}'): the value, or an exception.
JSONparse(payload) ==
    IF payload.t = "malformed" THEN [threw |-> TRUE]
    ELSE IF payload.t = "absent" THEN [threw |-> FALSE, value |-> EmptyObject]
    ELSE [threw |-> FALSE, value |-> payload.value]

Slots == {"passport", "bank", "offer"}

missingRequired_passportOnly(files) == files.passport = Nothing

\* !passport || !bank || !offer
missingRequired(files) ==
    files.passport = Nothing \/ files.bank = Nothing \/ files.offer = Nothing

\* The temp files of the request: [passport, bank, offer].filter(Boolean).
allFilesOf(files) == {files[sl] : sl \in {x \in Slots : files[x] # Nothing}}

\* cleanupFiles: every listed file that exists on disk is unlinked.
cleanupFiles(disk, fs) == disk \ {f.path : f \in fs}

MissingDocsResponse ==
    [status |-> 400,
     body |-> [error |-> "Missing required documents. Please upload passport, bank statement, and offer letter."]]

InternalErrorResponse ==
    [status |-> 500, body |-> [error |-> "Internal error analyzing profile"]]

stripImpact_keeps(docs) == docs

\* docs.map(({ scoreImpact, ...rest }) => rest)
stripImpact(docs) ==
    [i \in 1..Len(docs) |->
        [name |-> docs[i].name, ok |-> docs[i].ok, note |-> docs[i].note]]

\* The only element of a singleton set.  { e(x) : x \in {v} } evaluates v
\* once, where a LET definition is evaluated again at each use.
The(S) == CHOOSE x \in S : TRUE

\* The lines 162-171: the three documents are analysed, each with its role.
analyzeAll(files) ==
    LET named(label, r) == [name |-> label, ok |-> r.ok, note |-> r.note,
                            scoreImpact |-> r.scoreImpact]
    IN  << The({named("Passport", r) :
                  r \in {analyzeDocument(files.passport, "passport")}}),
           The({named("Bank statement", r) :
                  r \in {analyzeDocument(files.bank, "bank")}}),
           The({named("Offer letter", r) :
                  r \in {analyzeDocument(files.offer, "offer")}}) >>

twinOf_strict(p, score) ==
    [name |-> IF Falsy(Field(p, "name"))
              THEN Str(<<"A","p","p","l","i","c","a","n","t">>)
              ELSE Field(p, "name"),
     confidence |-> 80,
     traits |-> << IF StrictEq(Field(p, "past_visa"), "None")
                   THEN "Low travel history" ELSE "Experienced traveller",
                   IF score > 70
                   THEN "Low risk profile" ELSE "Medium risk profile" >>]

\* The twin (lines 176-183).
twinOf(p, score) ==
    [name |-> IF Falsy(Field(p, "name"))
              THEN Str(<<"A","p","p","l","i","c","a","n","t">>)
              ELSE Field(p, "name"),
     confidence |-> 80,
     traits |-> << IF StrictEq(Field(p, "past_visa"), "None")
                   THEN "Low travel history" ELSE "Experienced traveller",
                   IF score >= 70
                   THEN "Low risk profile" ELSE "Medium risk profile" >>]

countriesOf_unclampedUK(base) ==
    << [name |-> "Canada", score |-> Min(100, base + 3), flag |-> "CA",
        reason |-> "Study funds okay; program alignment good."],
       [name |-> "UK", score |-> base - 8, flag |-> "GB",
        reason |-> "Needs stronger financial and document history."],
       [name |-> "Australia", score |-> Min(100, base + 5), flag |-> "AU",
        reason |-> "Profile matches skill/education demand."] >>

\* The multi-country comparison (lines 186-191).
countriesOf(base) ==
    << [name |-> "Canada", score |-> Min(100, base + 3), flag |-> "CA",
        reason |-> "Study funds okay; program alignment good."],
       [name |-> "UK", score |-> Max(0, base - 8), flag |-> "GB",
        reason |-> "Needs stronger financial and document history."],
       [name |-> "Australia", score |-> Min(100, base + 5), flag |-> "AU",
        reason |-> "Profile matches skill/education demand."] >>

\* The lines 175-210: the result assembled from the profile, the analysed
\* documents and their score.  The flag glyphs are written as country codes.
assemble(p, docs, si) ==
    LET base == si.score
        pv   == Field(p, "past_visa")
        pu   == Field(p, "purpose")
    IN  [score |-> si.score,
         plain |-> si.plain,
         reasons |-> si.reasons,
         docs |-> stripImpact(docs),
         twin |-> twinOf(p, si.score),
         countries |-> countriesOf(base),
         risk |-> <<
            [label |-> "Finances", value |-> fundsRisk(si.score)],
            [label |-> "Docs", value |-> docsRisk(docs)],
            [label |-> "Travel History",
             value |-> IF StrictEq(pv, "None") THEN 60 ELSE 25],
            [label |-> "Purpose",
             value |-> IF StrictEq(pu, "Study") \/ StrictEq(pu, "Work")
                       THEN 20 ELSE 40] >>]

\* The lines 162-210: analysis, score, result.
resultOf(p, files) ==
    The({ The({ assemble(p, docs, si) : si \in {computeScore(p, docs)} }) :
            docs \in {analyzeAll(files)} })

\* A handler that counts the files in uploads/ instead of those of the
\* request: with three or more files on disk the required-document check
\* passes and the analysis of a missing document throws.
handle_scansDisk(r, disk) ==
    LET parsed == JSONparse(r.body.profile) IN
    IF parsed.threw
    THEN [res |-> InternalErrorResponse, disk |-> disk]
    ELSE IF Cardinality(disk) < 3
    THEN [res |-> MissingDocsResponse,
          disk |-> cleanupFiles(disk, allFilesOf(r.files))]
    ELSE IF (\E sl \in Slots : r.files[sl] = Nothing) \/ parsed.value = Null
    THEN [res |-> InternalErrorResponse, disk |-> disk]
    ELSE [res |-> [status |-> 200, body |-> resultOf(parsed.value, r.files)],
          disk |-> cleanupFiles(disk, allFilesOf(r.files))]

\* The handler from its try to its catch: the response, and the uploads
\* directory it leaves.  An exception (JSON.parse of a malformed payload, a
\* property read of a null profile in computeScore or of an undefined file
\* in analyzeDocument) ends in the catch, which answers 500 and cleans
\* nothing up.
handle(r, disk) ==
    LET parsed == JSONparse(r.body.profile) IN
    IF parsed.threw
    THEN [res |-> InternalErrorResponse, disk |-> disk]
    ELSE IF missingRequired(r.files)
    THEN [res |-> MissingDocsResponse,
          disk |-> cleanupFiles(disk, allFilesOf(r.files))]
    ELSE IF (\E sl \in Slots : r.files[sl] = Nothing) \/ parsed.value = Null
    THEN [res |-> InternalErrorResponse, disk |-> disk]
    ELSE [res |-> [status |-> 200, body |-> resultOf(parsed.value, r.files)],
          disk |-> cleanupFiles(disk, allFilesOf(r.files))]

\* The number of requests a behaviour serves.
MaxRequests == 2

HandlerFunds     == {Undefined, Str(<<"a","b","c">>),
                     Str(<<"9","0","0","0","0">>), Num(200000)}
HandlerEducation == {Str("Bachelors"), Str("Masters")}
HandlerPastVisa  == {Undefined, Str("None"), Str("3+")}
HandlerPurpose   == {Str("Study"), Str("Work"), Str("Tourism")}
HandlerNames     == {Undefined, Str(<<>>), Str(<<"A","s","h","a">>)}
HandlerDest      == {Str("Canada"), Str("Japan")}

\* The profile payloads the handler is exercised on: no payload, text that
\* is not JSON, null, a primitive, every combination of the fields the score
\* reads, and every combination of the other fields for a weak and for a
\* strong profile.
HandlerPayloads ==
    {AbsentPayload, MalformedPayload, JsonPayload(Null), JsonPayload(Num(5))}
    \cup { JsonPayload(ProfileObject(fu, ed, pv, Str("Study"),
                                     Str(<<"A","s","h","a">>), Str("Canada"))) :
             fu \in HandlerFunds, ed \in HandlerEducation,
             pv \in HandlerPastVisa }
    \cup { JsonPayload(ProfileObject(Undefined, Str("Bachelors"), Str("None"),
                                     pu, na, dc)) :
             pu \in HandlerPurpose, na \in HandlerNames, dc \in HandlerDest }
    \cup { JsonPayload(ProfileObject(Num(200000), Str("Masters"), Undefined,
                                     pu, na, dc)) :
             pu \in HandlerPurpose, na \in HandlerNames, dc \in HandlerDest }

\* What a client may put in each file field (Nothing: the field is not sent).
HandlerUploads ==
    [passport : {Nothing, GoodPdf, SmallPdf, Docx},
     bank     : {Nothing, GoodPdf, SmallPdf, Docx},
     offer    : {Nothing, GoodPdf, SmallPdf, Docx}]

\* multer's temp file for an uploaded file: a fresh name in uploads/.
stored(f, path) ==
    [originalname |-> f.originalname, size |-> f.size, path |-> path]

Init ==
    /\ req = Nothing /\ res = Nothing /\ uploads = {} /\ served = 0
    /\ AppInit
    /\ file = Nothing /\ type = Nothing /\ docRes = Nothing
    /\ profile = Nothing /\ docResults = <<>> /\ scoreInfo = Nothing

\* upload.fields([...]): multer stores the files of a request in uploads/
\* under fresh names and hands req.body and req.files to the handler.
storeUploads(payload, up, disk) ==
    LET p1 == 1 + Cardinality(disk)
        p2 == IF up.passport = Nothing THEN p1 ELSE p1 + 1
        p3 == IF up.bank = Nothing THEN p2 ELSE p2 + 1
    IN  [body |-> [profile |-> payload],
         files |-> [passport |-> IF up.passport = Nothing THEN Nothing
                                 ELSE stored(up.passport, p1),
                    bank     |-> IF up.bank = Nothing THEN Nothing
                                 ELSE stored(up.bank, p2),
                    offer    |-> IF up.offer = Nothing THEN Nothing
                                 ELSE stored(up.offer, p3)]]

\* A request arrives and passes the upload middleware.
MulterUpload ==
    /\ req = Nothing
    /\ served < MaxRequests
    /\ \E payload \in HandlerPayloads, up \in HandlerUploads :
          \E r \in {storeUploads(payload, up, uploads)} :
              /\ req' = r
              /\ uploads' = uploads \cup {f.path : f \in allFilesOf(r.files)}
    /\ res' = Nothing
    /\ UNCHANGED <<served, docVars, scoreVars, appVars>>

\* The handler (lines 143-215), from the request to the response.
AnalyzeHandler ==
    /\ req # Nothing
    /\ res = Nothing
    /\ \E out \in {handle(req, uploads)} :
          /\ res' = out.res
          /\ uploads' = out.disk
    /\ served' = served + 1
    /\ UNCHANGED <<req, docVars, scoreVars, appVars>>

\* The response has gone out: the request is over.
ResponseSent ==
    /\ res # Nothing
    /\ req' = Nothing
    /\ res' = Nothing
    /\ UNCHANGED <<uploads, served, docVars, scoreVars, appVars>>

Next ==
    \/ MulterUpload
    \/ AnalyzeHandler
    \/ ResponseSent

Spec == Init /\ [][Next]_vars

-----------------------------------------------------------------------------
(* The frontend App (src/src/App.jsx 414-493)                              *)

\* The number of analyses a behaviour starts.
MaxAnalyses == 3

Stages == {"landing", "profile", "upload", "loading", "results", "interview"}

InitApp ==
    /\ AppInit
    /\ file = Nothing /\ type = Nothing /\ docRes = Nothing
    /\ profile = Nothing /\ docResults = <<>> /\ scoreInfo = Nothing
    /\ req = Nothing /\ res = Nothing /\ uploads = {} /\ served = 0

\* start: "Get Started" in the Topbar and "Start Analysis" in the Hero,
\* both rendered at every stage.
Start ==
    /\ stage' = "profile"
    /\ UNCHANGED <<result, pending, started, docVars, scoreVars, handlerVars>>

\* toUpload: "Next: Upload Documents" of the profile form.
ToUpload ==
    /\ stage = "profile"
    /\ stage' = "upload"
    /\ UNCHANGED <<result, pending, started, docVars, scoreVars, handlerVars>>

\* analyze, up to its await: "Analyze My Profile" of the upload stage sets
\* the stage to loading and sends the request.
Analyze ==
    /\ stage = "upload"
    /\ started < MaxAnalyses
    /\ stage' = "loading"
    /\ started' = started + 1
    /\ pending' = pending \cup {started + 1}
    /\ UNCHANGED <<result, docVars, scoreVars, handlerVars>>

\* analyze, after its await, for a response that is ok and parses:
\* setResult(data); setStage('results').
AnalyzeResolved(id) ==
    /\ id \in pending
    /\ pending' = pending \ {id}
    /\ result' = [analysis |-> id]
    /\ stage' = "results"
    /\ UNCHANGED <<started, docVars, scoreVars, handlerVars>>

\* analyze, after its await, for a failed fetch or a response that is not
\* ok: the catch alerts and sets the stage to upload.
AnalyzeFailed(id) ==
    /\ id \in pending
    /\ pending' = pending \ {id}
    /\ stage' = "upload"
    /\ UNCHANGED <<result, started, docVars, scoreVars, handlerVars>>

\* onInterview: "Practice Interview" of the results dashboard, which is
\* rendered when stage === 'results' && result.
ToInterview ==
    /\ stage = "results"
    /\ result # Null
    /\ stage' = "interview"
    /\ UNCHANGED <<result, pending, started, docVars, scoreVars, handlerVars>>

\* onBack: "Back" of the interview practice.
BackToResults ==
    /\ stage = "interview"
    /\ stage' = "results"
    /\ UNCHANGED <<result, pending, started, docVars, scoreVars, handlerVars>>

NextApp ==
    \/ Start
    \/ ToUpload
    \/ Analyze
    \/ \E id \in 1..MaxAnalyses : AnalyzeResolved(id)
    \/ \E id \in 1..MaxAnalyses : AnalyzeFailed(id)
    \/ ToInterview
    \/ BackToResults

SpecApp == InitApp /\ [][NextApp]_vars

-----------------------------------------------------------------------------
(* Properties of analyzeDocument, checked under SpecDoc                    *)

\* The extension of a file name as the document check sees it.
ExtensionOf(name) == toLowerCase(extname(name))

\* Two strings are equal up to the case of their letters.
EqIgnoreCase(a, b) ==
    /\ Len(a) = Len(b)
    /\ \A i \in 1..Len(a) :
          \/ a[i] = b[i]
          \/ \E k \in 1..26 : {a[i], b[i]} = {UpperChars[k], LowerChars[k]}

\* C6: a document whose extension is not .pdf, .jpg, .jpeg or .png is
\* assessed ok=false with scoreImpact -20, for every role and every size; a
\* too-small file with an unsupported extension gets -20, not -15.
C6_UnsupportedExtension ==
    (docRes # Nothing /\ ExtensionOf(file.originalname) \notin allowedExt)
        => (docRes.ok = FALSE /\ docRes.scoreImpact = -20)

C6_Witness ==
    /\ docRes # Nothing
    /\ file.originalname = <<"i","d",".","d","o","c","x">>
    /\ file.size = 1
    /\ type = "bank"
    /\ docRes.scoreImpact = -20

\* C7: with an allowed extension, a file of fewer than 30720 bytes is
\* assessed ok=false with scoreImpact -15 for every role; from 30720 bytes on
\* it is assessed ok=true with +15 (passport), +20 (bank), +15 (offer) and +5
\* (any other role).
C7_SizeThenRole ==
    (docRes # Nothing /\ ExtensionOf(file.originalname) \in allowedExt)
        => IF file.size < 30720
           THEN docRes.ok = FALSE /\ docRes.scoreImpact = -15
           ELSE /\ docRes.ok = TRUE
                /\ type = "passport" => docRes.scoreImpact = 15
                /\ type = "bank" => docRes.scoreImpact = 20
                /\ type = "offer" => docRes.scoreImpact = 15
                /\ type \notin {"passport", "bank", "offer"}
                      => docRes.scoreImpact = 5

C7_Witness ==
    /\ docRes # Nothing
    /\ file.originalname = <<"i","d",".","j","p","e","g">>
    /\ file.size = 30720
    /\ type = "other"
    /\ docRes.ok = TRUE /\ docRes.scoreImpact = 5

\* C8: the extension check is case-insensitive: a document of the same role
\* and size whose name differs only in letter case gets the same ok verdict
\* and the same scoreImpact.
C8_CaseInsensitive ==
    docRes # Nothing =>
        \A n \in DocNames :
            EqIgnoreCase(n, file.originalname) =>
                LET other == analyzeDocument(
                                [originalname |-> n, size |-> file.size], type)
                IN  other.ok = docRes.ok
                    /\ other.scoreImpact = docRes.scoreImpact

C8_Witness ==
    /\ docRes # Nothing
    /\ file.originalname = <<"I","D",".","P","D","F">>
    /\ file.size = 30720
    /\ docRes.ok = TRUE
    /\ \E n \in DocNames :
          n # file.originalname /\ EqIgnoreCase(n, file.originalname)

-----------------------------------------------------------------------------
(* Properties of computeScore, checked under SpecScore                     *)

\* The funds adjustment, the education adjustment and the travel adjustment
\* of the scoring rules, for parsed funds fu.
FundsAdjustment(fu) ==
    IF Greater(fu, 150000) THEN 10 ELSE IF Less(fu, 50000) THEN -10 ELSE 0

EducationAdjustment(p) ==
    IF p.education \in {Str("Masters"), Str("PhD")} THEN 5 ELSE 0

TravelAdjustment(p) ==
    IF p.past_visa = Str("3+") THEN 5
    ELSE IF p.past_visa = Str("None") THEN -5 ELSE 0

RECURSIVE TotalImpact(_, _)
\* The sum of the scoreImpact of the first n assessments, last one first.
TotalImpact(docs, n) ==
    IF n = 0 THEN 0 ELSE docs[n].scoreImpact + TotalImpact(docs, n - 1)

\* The score the rules give for parsed funds fu.
ExpectedScore(p, docs, fu) ==
    LET x == 50 + TotalImpact(docs, Len(docs)) + FundsAdjustment(fu)
                + EducationAdjustment(p) + TravelAdjustment(p)
    IN  IF x < 0 THEN 0 ELSE IF x > 100 THEN 100 ELSE x

\* docs with the assessments at i and j exchanged.
Swapped(docs, i, j) ==
    [k \in 1..Len(docs) |->
        IF k = i THEN docs[j] ELSE IF k = j THEN docs[i] ELSE docs[k]]

\* C1: for every profile (missing, non-numeric, negative or very large funds
\* included) and every list of document assessments, the score is an integer
\* with 0 <= score <= 100.
C1_ScoreInRange ==
    scoreInfo # Nothing => scoreInfo.score \in 0..100

C1_Witness ==
    /\ scoreInfo # Nothing
    /\ profile.funds = Str(<<"a","b","c">>)
    /\ rawScore(profile, docResults) < 0
    /\ scoreInfo.score = 0

\* C3: when profile.funds is missing or is not a parsable number, funds count
\* as 0: the score carries the low-funds adjustment of -10 and the funds
\* reason is 'Low declared funds - risk on finances'.
C3_UnparsableFundsAsZero ==
    (/\ scoreInfo # Nothing
     /\ \/ profile.funds = Undefined
        \/ profile.funds.t = "string" /\ parseInt(profile.funds).nan)
        => /\ scoreInfo.score = ExpectedScore(profile, docResults, Finite(0))
           /\ scoreInfo.reasons[1] = "Low declared funds - risk on finances"

\* C4: the score is the clamp to [0,100] of 50 + the sum of the documents'
\* scoreImpact + the funds, education and travel adjustments, and it does not
\* depend on the order of the document assessments.
C4_ScoreFormula ==
    scoreInfo # Nothing =>
        /\ scoreInfo.score
              = ExpectedScore(profile, docResults, fundsOf(profile))
        /\ \A i, j \in 1..Len(docResults) :
              i < j =>
                computeScore(profile, Swapped(docResults, i, j)).score
                    = scoreInfo.score

C4_Witness ==
    /\ scoreInfo # Nothing
    /\ Len(docResults) = 3
    /\ docResults[1].scoreImpact = -20
    /\ docResults[2].scoreImpact = -15
    /\ docResults[3].scoreImpact = 20
    /\ profile.funds = Num(200000)
    /\ profile.education = Str("Masters")
    /\ profile.past_visa = Str("None")
    /\ scoreInfo.score = 45

Bands == <<"Unlikely", "Borderline", "Likely", "Highly likely">>
BandRank(b) == CHOOSE i \in 1..4 : Bands[i] = b

\* Band b is the band the thresholds 45/60/75 give score s.
IsBandOf(b, s) ==
    /\ \E i \in 1..4 : Bands[i] = b
    /\ b = "Highly likely" <=> s >= 75
    /\ b = "Likely" <=> (60 <= s /\ s <= 74)
    /\ b = "Borderline" <=> (45 <= s /\ s <= 59)
    /\ b = "Unlikely" <=> s <= 44

\* C5: the band is a total function of the score: every integer score in
\* 0..100 has exactly one band, 'Highly likely' iff score >= 75, 'Likely' iff
\* 60..74, 'Borderline' iff 45..59, 'Unlikely' iff <= 44, and the band never
\* decreases when the score increases.
C5_BandOfScore ==
    scoreInfo # Nothing =>
        /\ IsBandOf(scoreInfo.plain, scoreInfo.score)
        /\ \A s \in 0..100 :
              /\ IsBandOf(plainOf(s), s)
              /\ s <= scoreInfo.score
                    => BandRank(plainOf(s)) <= BandRank(scoreInfo.plain)
              /\ s >= scoreInfo.score
                    => BandRank(plainOf(s)) >= BandRank(scoreInfo.plain)

C5_Witness ==
    /\ scoreInfo # Nothing
    /\ scoreInfo.score = 75
    /\ scoreInfo.plain = "Highly likely"

FundsReasons == {"Strong financial capacity",
                 "Low declared funds - risk on finances",
                 "Funds appear moderate for stay"}
TravelReasons == {"Good travel history - positive signal",
                  "No prior visa history - neutral or slightly risky"}

\* The place of a reason in the fixed order.
ReasonRank(r) ==
    IF r \in FundsReasons THEN 1
    ELSE IF r = "Advanced education supports purpose" THEN 2
    ELSE IF r \in TravelReasons THEN 3
    ELSE IF r = "One or more documents look weak or invalid" THEN 4
    ELSE 0

\* C9: the reasons come in a fixed order: exactly one funds reason chosen by
\* the funds comparison of the score, then the education reason iff education
\* is Masters or PhD, then at most one travel reason, then the document
\* reason iff some assessment has ok=false; 1 to 4 entries, none twice.
C9_ReasonsOrder ==
    scoreInfo # Nothing =>
        LET rs == scoreInfo.reasons
            has(r) == \E i \in 1..Len(rs) : rs[i] = r
            fu == fundsOf(profile)
        IN  /\ Len(rs) \in 1..4
            /\ \A i \in 1..Len(rs) : ReasonRank(rs[i]) \in 1..4
            /\ \A i, j \in 1..Len(rs) :
                  i < j => ReasonRank(rs[i]) < ReasonRank(rs[j])
            /\ rs[1] = (IF FundsAdjustment(fu) = 10
                        THEN "Strong financial capacity"
                        ELSE IF FundsAdjustment(fu) = -10
                        THEN "Low declared funds - risk on finances"
                        ELSE "Funds appear moderate for stay")
            /\ has("Advanced education supports purpose")
                  <=> EducationAdjustment(profile) = 5
            /\ has("Good travel history - positive signal")
                  <=> profile.past_visa = Str("3+")
            /\ has("No prior visa history - neutral or slightly risky")
                  <=> profile.past_visa = Str("None")
            /\ has("One or more documents look weak or invalid")
                  <=> \E i \in 1..Len(docResults) : docResults[i].ok = FALSE

C9_Witness ==
    /\ scoreInfo # Nothing
    /\ scoreInfo.reasons =
          <<"Funds appear moderate for stay",
            "Advanced education supports purpose",
            "No prior visa history - neutral or slightly risky",
            "One or more documents look weak or invalid">>

-----------------------------------------------------------------------------
(* Properties of the handler, checked under Spec                           *)

\* The request has been answered.
Answered == req # Nothing /\ res # Nothing

\* At least one of the three file fields of the request is missing.
SomeDocumentMissing == \E sl \in Slots : req.files[sl] = Nothing

\* The response carries nothing of a result: an error message only.
ErrorOnly(r) == DOMAIN r.body = {"error"}

\* C2 as stated: a request with a required document missing is always
\* answered with the missing-documents failure, whatever its profile payload.
C2_MissingAlwaysPrecondition ==
    (Answered /\ SomeDocumentMissing) => res = MissingDocsResponse

\* C2, amended: a request with a required document missing whose profile
\* payload is absent, empty or valid JSON is answered with the
\* missing-documents failure; when the payload is not valid JSON the answer
\* is the internal-error failure instead.  In both cases the response
\* carries an error message only: no docs, no score, no partial result.
C2_MissingDocuments ==
    (Answered /\ SomeDocumentMissing) =>
        /\ ErrorOnly(res)
        /\ req.body.profile.t # "malformed" => res = MissingDocsResponse
        /\ req.body.profile.t = "malformed" => res = InternalErrorResponse

C2_Witness ==
    /\ Answered
    /\ req.files.passport # Nothing
    /\ req.files.bank = Nothing
    /\ req.files.offer # Nothing
    /\ req.body.profile = JsonPayload(Null)
    /\ res = MissingDocsResponse

\* The number of entries of docs with ok = false.
BadCount(docs) == Cardinality({i \in 1..Len(docs) : docs[i].ok = FALSE})

\* C10: a successful result carries exactly four risk items, in the order
\* Finances, Docs, Travel History, Purpose: Finances is 20 / 35 / 60 for a
\* final score >= 80 / in 60..79 / below 60; Docs is 25 / 50 / 70 for 0 / 1 /
\* at least 2 documents with ok=false; Travel History is 60 iff past_visa is
\* 'None', else 25; Purpose is 20 iff purpose is Study or Work, else 40.
C10_RiskItems ==
    (Answered /\ res.status = 200) =>
        LET risk == res.body.risk
            sc   == res.body.score
            bad  == BadCount(res.body.docs)
            p    == JSONparse(req.body.profile).value
        IN  /\ Len(risk) = 4
            /\ [i \in 1..4 |-> risk[i].label]
                  = <<"Finances", "Docs", "Travel History", "Purpose">>
            /\ risk[1].value = (IF sc >= 80 THEN 20
                                ELSE IF sc >= 60 /\ sc < 80 THEN 35 ELSE 60)
            /\ risk[2].value = (IF bad = 0 THEN 25
                                ELSE IF bad = 1 THEN 50 ELSE 70)
            /\ risk[3].value = 60 <=> Field(p, "past_visa") = Str("None")
            /\ risk[3].value \in {25, 60}
            /\ risk[4].value = 20
                  <=> Field(p, "purpose") \in {Str("Study"), Str("Work")}
            /\ risk[4].value \in {20, 40}

C10_Witness ==
    /\ Answered
    /\ res.status = 200
    /\ Field(JSONparse(req.body.profile).value, "funds") = Undefined
    /\ Field(JSONparse(req.body.profile).value, "past_visa") = Str("None")
    /\ res.body.score = 85
    /\ [i \in 1..4 |-> res.body.risk[i].value] = <<20, 25, 60, 20>>

\* The parsed profile of an answered request whose payload parses.
ParsedProfile == JSONparse(req.body.profile).value

\* The profile payload parses to a value whose properties can be read.
ProfileUsable ==
    req.body.profile.t # "malformed" /\ req.body.profile # JsonPayload(Null)

\* The fields of a parsed profile; a primitive has none.
AsObject(p) == IF p.t = "object" THEN p ELSE EmptyObject

Succeeded == Answered /\ res.status = 200

AllDocumentsPresent == \A sl \in Slots : req.files[sl] # Nothing

\* The document fails validation: bad extension or fewer than 30 KB.
FailsValidation(f) ==
    ExtensionOf(f.originalname) \notin allowedExt \/ f.size < 30720

SlotOrder == <<"passport", "bank", "offer">>

\* The payload with dest_country set to d.
WithDest(payload, d) ==
    IF payload.t = "absent"
    THEN JsonPayload([EmptyObject EXCEPT !.dest_country = d])
    ELSE IF payload.t = "json" /\ payload.value.t = "object"
    THEN JsonPayload([payload.value EXCEPT !.dest_country = d])
    ELSE payload

\* C11: a successful result carries exactly three country entries, Canada,
\* UK, Australia, with scores min(100, score+3), max(0, score-8) and
\* min(100, score+5) of the final score, each in 0..100, and none changes
\* when only profile.dest_country changes.
C11_Countries ==
    Succeeded =>
        LET cs == res.body.countries
            sc == res.body.score
        IN  /\ Len(cs) = 3
            /\ [i \in 1..3 |-> cs[i].name] = <<"Canada", "UK", "Australia">>
            /\ cs[1].score = (IF sc + 3 > 100 THEN 100 ELSE sc + 3)
            /\ cs[2].score = (IF sc - 8 < 0 THEN 0 ELSE sc - 8)
            /\ cs[3].score = (IF sc + 5 > 100 THEN 100 ELSE sc + 5)
            /\ \A i \in 1..3 : cs[i].score \in 0..100
            /\ \A d \in (HandlerDest \cup {Undefined})
                            \ {Field(ParsedProfile, "dest_country")} :
                  handle([req EXCEPT !.body.profile = WithDest(@, d)],
                         uploads).res.body.countries = cs

C11_Witness ==
    /\ Succeeded
    /\ Field(ParsedProfile, "dest_country") = Str("Japan")
    /\ res.body.score = 100
    /\ [i \in 1..3 |-> res.body.countries[i].score] = <<100, 92, 100>>

\* The scoreImpact the validation rules give a document in a role.
ImpactOf(f, role) ==
    IF ExtensionOf(f.originalname) \notin allowedExt THEN -20
    ELSE IF f.size < 30720 THEN -15
    ELSE IF role = "bank" THEN 20 ELSE 15

\* C12 as stated: a request with all three documents present in which a
\* document fails validation yields a successful result.
C12_SoftFailureAlwaysSucceeds ==
    (/\ Answered
     /\ AllDocumentsPresent
     /\ \E sl \in Slots : FailsValidation(req.files[sl]))
        => res.status = 200

\* C12, amended: a request with all three documents present in which a
\* document fails validation, and whose profile payload is absent or parses
\* to a value other than null, yields a successful result: docs records
\* ok=false for exactly the failing documents and their negative scoreImpact
\* is part of the score.  With a malformed or null profile payload the
\* request is answered with the internal-error failure.
C12_SoftFailure ==
    (/\ Answered
     /\ AllDocumentsPresent
     /\ \E sl \in Slots : FailsValidation(req.files[sl]))
        => IF ProfileUsable
           THEN /\ res.status = 200
                /\ \A i \in 1..3 :
                      res.body.docs[i].ok = FALSE
                          <=> FailsValidation(req.files[SlotOrder[i]])
                /\ res.body.score =
                      ExpectedScore(
                          AsObject(ParsedProfile),
                          [i \in 1..3 |->
                              [scoreImpact |-> ImpactOf(req.files[SlotOrder[i]],
                                                        SlotOrder[i])]],
                          fundsOf(ParsedProfile))
           ELSE res = InternalErrorResponse

C12_Witness ==
    /\ Succeeded
    /\ req.files.passport.originalname = Docx.originalname
    /\ req.files.bank.size = SmallPdf.size
    /\ ~FailsValidation(req.files.offer)
    /\ [i \in 1..3 |-> res.body.docs[i].ok] = <<FALSE, FALSE, TRUE>>
    /\ res.body.score = 30

\* C13: an unparsable profile payload is rejected with an outcome that is
\* not the missing-documents failure, and no result record is returned.
C13_MalformedProfile ==
    (Answered /\ req.body.profile.t = "malformed") =>
        /\ res.status # 200
        /\ res # MissingDocsResponse
        /\ res = InternalErrorResponse
        /\ ErrorOnly(res)

C13_Witness ==
    /\ Answered
    /\ req.body.profile.t = "malformed"
    /\ SomeDocumentMissing
    /\ res.status = 500

\* C14: by the time the handler has answered a request, on every path
\* (result, missing documents, internal error), every temp file uploaded
\* with that request has been deleted.
C14_TempFilesDeleted ==
    Answered => \A f \in allFilesOf(req.files) : f.path \notin uploads

\* C15: in a successful result docs has exactly three entries, Passport,
\* Bank statement, Offer letter, each the verdict of that document in its
\* own role, and each carries name, ok and note only: no scoreImpact.
C15_DocsList ==
    Succeeded =>
        LET ds == res.body.docs IN
        /\ Len(ds) = 3
        /\ [i \in 1..3 |-> ds[i].name]
              = <<"Passport", "Bank statement", "Offer letter">>
        /\ \A i \in 1..3 :
              /\ DOMAIN ds[i] = {"name", "ok", "note"}
              /\ ds[i].ok = ~FailsValidation(req.files[SlotOrder[i]])
              /\ ds[i].note
                    = analyzeDocument(req.files[SlotOrder[i]], SlotOrder[i]).note
        /\ ds[1].ok => ds[1].note
              = <<"Passport file looks valid (size & type OK).">>
        /\ ds[2].ok => ds[2].note
              = <<"Bank statement file looks valid. For demo we assume balance & history OK.">>
        /\ ds[3].ok => ds[3].note
              = <<"Offer letter file looks valid. In production we would verify institution & dates.">>

C15_Witness ==
    /\ Succeeded
    /\ [i \in 1..3 |-> res.body.docs[i].ok] = <<TRUE, FALSE, TRUE>>
    /\ res.body.docs[2].name = "Bank statement"

\* What the client sent in the file fields of the request.
SentFiles ==
    [sl \in Slots |->
        IF req.files[sl] = Nothing THEN Nothing
        ELSE [originalname |-> req.files[sl].originalname,
              size |-> req.files[sl].size]]

\* The answer a server that has served nothing gives to the same inputs.
FreshOutcome ==
    LET r0 == storeUploads(req.body.profile, SentFiles, {}) IN
    handle(r0, {f.path : f \in allFilesOf(r0.files)}).res

C17_Twin ==
    Succeeded =>
        LET tw == res.body.twin
            nm == Field(ParsedProfile, "name")
        IN  /\ DOMAIN tw = {"name", "confidence", "traits"}
            /\ tw.name = (IF nm = Undefined \/ nm = Str(<<>>)
                          THEN Str(<<"A","p","p","l","i","c","a","n","t">>)
                          ELSE nm)
            /\ tw.confidence = 80
            /\ Len(tw.traits) = 2
            /\ tw.traits[1] =
                  (IF Field(ParsedProfile, "past_visa") = Str("None")
                   THEN "Low travel history" ELSE "Experienced traveller")
            /\ tw.traits[2] =
                  (IF res.body.score >= 70
                   THEN "Low risk profile" ELSE "Medium risk profile")

C17_Witness ==
    /\ Succeeded
    /\ Field(ParsedProfile, "name") = Str(<<>>)
    /\ Field(ParsedProfile, "past_visa") = Str("None")
    /\ res.body.score = 85
    /\ res.body.twin.name = Str(<<"A","p","p","l","i","c","a","n","t">>)
    /\ res.body.twin.traits = <<"Low travel history", "Low risk profile">>

\* C18: when all three documents pass validation, for every profile the
\* result has score >= 85, band 'Highly likely', Finances risk 20, Docs risk
\* 25 and the twin trait 'Low risk profile'.
C18_ThreeValidDocuments ==
    (/\ Answered
     /\ AllDocumentsPresent
     /\ \A sl \in Slots : ~FailsValidation(req.files[sl])
     /\ ProfileUsable)
        => /\ res.status = 200
           /\ res.body.score >= 85
           /\ res.body.plain = "Highly likely"
           /\ res.body.risk[1].value = 20
           /\ res.body.risk[2].value = 25
           /\ res.body.twin.traits[2] = "Low risk profile"

C18_Witness ==
    /\ Succeeded
    /\ \A sl \in Slots : req.files[sl] # Nothing
                            /\ ~FailsValidation(req.files[sl])
    /\ Field(ParsedProfile, "funds") = Undefined
    /\ Field(ParsedProfile, "past_visa") = Str("None")
    /\ res.body.score = 85

-----------------------------------------------------------------------------
(* Properties of the frontend App, checked under SpecApp                   *)

\* C19: at most one analysis request is outstanding at any time; the
\* completion of an analysis changes the stage only while the stage is
\* still 'loading'; and the result shown in 'results' is that of the most
\* recently started analysis.
C19_StageFlow ==
    [][ /\ Cardinality(pending') <= 1
        /\ (pending' # pending /\ pending' \subseteq pending /\ stage' # stage)
              => stage = "loading"
        /\ (stage' = "results" /\ result' # Null)
              => result' = [analysis |-> started'] ]_vars

====
